---- MODULE Spec2Model ----
(***************************************************************************)
(* Reconciliation & sync engine of Arcus-Sheets: the MANUAL_OVERRIDES      *)
(* store (sheets_manager.py), the ops agent that writes it (ops_agent.py), *)
(* the ORDERS view builder (view_sheets_builder.py) and the ORDERS-only    *)
(* sync (simple_orders_sync.py).                                           *)
(*                                                                         *)
(* A worksheet is the sequence of its rows as get_all_values() returns     *)
(* them: row 1 first, every row padded to the same width, <<>> for a       *)
(* worksheet that does not exist yet or holds nothing.  Every cell is a    *)
(* string; "" is the empty cell.                                           *)
(***************************************************************************)
EXTENDS Integers, Sequences, FiniteSets, TLC

\* ---------------------------------------------------------------- bounds
MaxStoreRows == 3        \* rows MANUAL_OVERRIDES may grow to under direct upserts (row 1 included)
MaxOpsRows   == 3        \* rows MANUAL_OVERRIDES may grow to under ops commands (row 1 included)
MaxNoteLines == 2        \* lines a notes cell may grow to
MaxRawRows   == 2        \* data rows of a RAW_ORDERS snapshot
MaxSourceOrders == 2     \* orders in the Shopify store
MaxAnnotations == 1      \* cells of ORDERS a user fills in by hand
PageLimit    == 1        \* orders the store returns per page

\* ------------------------------------------------------- input alphabets
OrderIds     == {"X1", "X2"}
OrderNumbers == {"N1", "N2"}
PslValues    == {"P1"}
NoteTexts    == {"a", "b"}
Times        == {"t1", "t2"}
NoCost       == -1                    \* Python None for an optional float
CostValues   == {150}                 \* label costs, in cents
SetupCostValues == {100000}           \* setup costs of a costs command, in cents

VARIABLES
    overrides,     \* worksheet MANUAL_OVERRIDES
    raw,           \* worksheet RAW_ORDERS
    orders,        \* worksheet ORDERS; its cells are Lit(text) or formulas
    formulaFill,   \* rows below row 1 of ORDERS that hold the Revenue and Profit formulas past the last row of `orders`
    source,        \* the orders in the Shopify store, oldest page first
    headersCache,  \* SheetsManager._headers_cache entry of RAW_ORDERS
    lastCall,      \* the operation that made the last step, with its arguments
    fetchResult,   \* what the last direct call of ShopifyClient.get_orders was answered and what it returned
    writer,        \* the last write to the spreadsheet made under API answers: the answers, the attempts and throttles made, whether it was written
    metrics,       \* worksheet METRICS; a value cell is FloatText(n) or OtherText(t)
    fulfillment,   \* worksheet FULFILLMENT
    server         \* the API server: the commands received and not yet handled, the handlers that have read and not yet written, the commands handled

vars == <<overrides, raw, orders, formulaFill, source, headersCache, lastCall, fetchResult, writer, metrics, fulfillment, server>>

\* ------------------------------------------------------ cell conversions
\* A float written to a cell and read back by get_all_values() is its
\* decimal text; float(text) parses it back.
FloatToCell(c) == IF c = 150 THEN "1.5" ELSE IF c = 250 THEN "2.5" ELSE ""

CellToFloat(s) == IF s = "1.5" THEN 150 ELSE IF s = "2.5" THEN 250 ELSE NoCost

\* ------------------------------------------------ MANUAL_OVERRIDES store
OverrideRow(a, b, c, d, e, f, g) ==
    [order_id |-> a, order_number |-> b, psl |-> c, shipping_label_cost |-> d,
     notes |-> e, updated_at |-> f, updated_by |-> g]

OverrideHeaders ==
    OverrideRow("order_id", "order_number", "psl", "shipping_label_cost",
                "notes", "updated_at", "updated_by")

\* sheet.update('A1', [headers]): row 1 is replaced, or created
WriteRow1(sheet, row) ==
    IF sheet = <<>> THEN <<row>> ELSE [sheet EXCEPT ![1] = row]

create_manual_overrides_sheet(sheet) == WriteRow1(sheet, OverrideHeaders)

\* the first of the matching row numbers a loop over all_data[1:] meets, 0
\* when there is none
FirstDataRow(hits) == IF hits = {} THEN 0 ELSE CHOOSE i \in hits : \A j \in hits : i <= j

FindExistingRow(all_data, order_id) ==
    FirstDataRow({i \in 2..Len(all_data) : all_data[i].order_id = order_id})

upsert_manual_override(all_data, order_id, order_number, psl, cost, notes, updated_by, now) ==
    LET existing_row == FindExistingRow(all_data, order_id)
        row_data     == OverrideRow(order_id, order_number, psl,
                                    FloatToCell(cost), notes, now, updated_by)
    IN  IF existing_row # 0
        THEN [all_data EXCEPT ![existing_row] = row_data]
        ELSE Append(all_data, row_data)

NoOverride == [found |-> FALSE]

OverrideDict(row) ==
    [found |-> TRUE, order_id |-> row.order_id, order_number |-> row.order_number,
     psl |-> row.psl, shipping_label_cost |-> CellToFloat(row.shipping_label_cost),
     notes |-> row.notes, updated_at |-> row.updated_at,
     updated_by |-> row.updated_by]

get_manual_override(all_data, order_id, order_number) ==
    LET Match(row) == \/ order_id # "" /\ row.order_id = order_id
                      \/ order_number # "" /\ row.order_number = order_number
        i == FirstDataRow({k \in 2..Len(all_data) : Match(all_data[k])})
    IN  IF Len(all_data) < 2 \/ i = 0 THEN NoOverride ELSE OverrideDict(all_data[i])

\* ---------------------------------------------------- rate-limited writer
writer_max_retries == 5

\* what the Sheets API answers to one attempt: accepted, a rate-limit error
\* (429 / RESOURCE_EXHAUSTED / quota), a 5xx server error (its text names
\* none of the rate-limit words), or another error
WriteAnswers == {"ok", "429", "500", "err"}

\* the answers to the successive attempts of one call.  An attempt is made
\* only after rate-limit errors, so the answers after the first answer of
\* another kind are never asked for: they are fixed to "ok"
WriteScripts == {answers \in [1..writer_max_retries -> WriteAnswers] : \A k \in 1..writer_max_retries : answers[k] # "429" => \A j \in (k + 1)..writer_max_retries : answers[j] = "ok"}

\* a retry loop that ends without raising once the attempts are used up
RECURSIVE retry_with_backoff_NoRaise(_, _)
retry_with_backoff_NoRaise(answers, attempt) ==
    IF attempt >= writer_max_retries THEN [outcome |-> "ok", attempts |-> attempt, throttles |-> attempt]
    ELSE IF answers[attempt + 1] = "ok" THEN [outcome |-> "ok", attempts |-> attempt + 1, throttles |-> attempt + 1]
    ELSE IF answers[attempt + 1] = "429" THEN retry_with_backoff_NoRaise(answers, attempt + 1)
    ELSE [outcome |-> "raised", attempts |-> attempt + 1, throttles |-> attempt + 1]

\* _retry_with_backoff from attempt number `attempt` (0-based) on: every
\* attempt throttles first; a rate-limit error is retried unless the attempt
\* was the last one, every other error is raised at once
RECURSIVE retry_with_backoff(_, _)
retry_with_backoff(answers, attempt) ==
    IF attempt >= writer_max_retries THEN [outcome |-> "ok", attempts |-> attempt, throttles |-> attempt]
    ELSE IF answers[attempt + 1] = "ok" THEN [outcome |-> "ok", attempts |-> attempt + 1, throttles |-> attempt + 1]
    ELSE IF answers[attempt + 1] = "429" /\ attempt < writer_max_retries - 1 THEN retry_with_backoff(answers, attempt + 1)
    ELSE [outcome |-> "raised", attempts |-> attempt + 1, throttles |-> attempt + 1]

\* batch_update_values: True when the batch was written, False when
\* _retry_with_backoff raised
batch_update_values(answers) ==
    LET call == retry_with_backoff(answers, 0)
    IN  [via |-> "batch_update_values", result |-> call.outcome = "ok", attempts |-> call.attempts, throttles |-> call.throttles, answers |-> answers]

\* ------------------------------------------------------------ notes text
\* _add_note joins the existing notes and the new note with a newline
JoinNote(existing_note, note) ==
    IF existing_note # "" THEN existing_note \o "\n" \o note ELSE note

RECURSIVE JoinLines(_)
JoinLines(q) ==
    IF q = <<>> THEN "" ELSE JoinNote(JoinLines(SubSeq(q, 1, Len(q) - 1)), q[Len(q)])

NoteLineSeqs == UNION {[1..n -> NoteTexts] : n \in 0..(MaxNoteLines + 1)}

NoteCells == [q \in NoteLineSeqs |-> JoinLines(q)]

\* the lines of a notes cell, as text.split("\n") gives them
SplitLines(cell) ==
    IF \E q \in NoteLineSeqs : NoteCells[q] = cell
    THEN CHOOSE q \in NoteLineSeqs : NoteCells[q] = cell
    ELSE <<cell>>

NoteLines(cell) == IF cell = "" THEN {} ELSE {SplitLines(cell)[i] : i \in 1..Len(SplitLines(cell))}

\* ------------------------------------------------------------ RAW_ORDERS
\* list.index(name): 1-based position of the first equal element, 0 for
\* ValueError
IndexOf(headers, name) ==
    LET hits == {i \in 1..Len(headers) : headers[i] = name}
    IN  IF hits = {} THEN 0 ELSE CHOOSE i \in hits : \A j \in hits : i <= j

IndexOfEither(headers, name, alt) ==
    IF IndexOf(headers, name) # 0 THEN IndexOf(headers, name) ELSE IndexOf(headers, alt)

\* Key Resolver; "" stands for the None the callers treat like ""
get_order_id_from_number(all_data, order_number) ==
    IF Len(all_data) < 2 THEN ""
    ELSE LET headers       == all_data[1]
             order_num_col == IndexOfEither(headers, "Order Number", "order_number")
             order_id_col  == IndexOfEither(headers, "Order ID", "order_id")
             Match(row)    == row[order_num_col] = order_number
         IN  IF order_num_col = 0 \/ order_id_col = 0 THEN ""
             ELSE IF FirstDataRow({k \in 2..Len(all_data) : Match(all_data[k])}) = 0 THEN ""
             ELSE all_data[FirstDataRow({k \in 2..Len(all_data) : Match(all_data[k])})][order_id_col]

\* ------------------------------------------------------------- ops agent
OrDefault(value, dflt) == IF value # "" THEN value ELSE dflt

Field(override, name) == IF override.found THEN override[name] ELSE ""

set_shipping_label_cost(all_data, order_id, order_number, cost, now) ==
    LET override == get_manual_override(all_data, order_id, order_number)
    IN  upsert_manual_override(all_data, OrDefault(order_id, Field(override, "order_id")), OrDefault(order_number, Field(override, "order_number")), "", cost, "", "ops_agent", now)

set_psl(all_data, order_id, order_number, psl, now) ==
    upsert_manual_override(all_data, order_id, order_number, psl, NoCost, "", "ops_agent", now)

\* the upsert of _add_note, given the record its read has returned
add_note_upsert(all_data, order_id, order_number, note, override, now) ==
    LET existing_note == Field(override, "notes")
        new_note      == JoinNote(existing_note, note)
    IN  upsert_manual_override(all_data, OrDefault(order_id, Field(override, "order_id")), OrDefault(order_number, Field(override, "order_number")), "", NoCost, new_note, "ops_agent", now)

add_note(all_data, order_id, order_number, note, now) ==
    add_note_upsert(all_data, order_id, order_number, note, get_manual_override(all_data, order_id, order_number), now)

\* ------------------------------------------------------- ORDERS view
\* A cell of ORDERS is a literal or a formula over cells of its own row.
Lit(text) == [kind |-> "value", text |-> text]

\* =IFERROR(XLOOKUP(<key column><row>,MANUAL_OVERRIDES!A:A,MANUAL_OVERRIDES!<ret>:<ret>,dflt),dflt)
XLookup(key, ret, dflt) == [kind |-> "xlookup", key |-> key, ret |-> ret, dflt |-> dflt]

\* =<revenue><row>-(<unit cost><row>*<quantity><row>)-<label cost><row>
ProfitFormula(revenue, unit_cost, quantity, label_cost) == [kind |-> "profit", revenue |-> revenue, unit_cost |-> unit_cost, quantity |-> quantity, label_cost |-> label_cost]

NotCached == [cached |-> FALSE, headers |-> <<>>]

\* get_headers_cached: the cached entry if there is one, else row 1 of the
\* sheet, which is then cached
get_headers_cached(cache, sheet) ==
    IF cache.cached THEN cache
    ELSE [cached |-> TRUE, headers |-> IF sheet = <<>> THEN <<>> ELSE sheet[1]]

clear_cache(cache) == NotCached

Min(a, b) == IF a <= b THEN a ELSE b

\* get_values over the first `width` columns: cells past the row's end are ""
CellAt(row, k) == IF k <= Len(row) THEN row[k] ELSE ""

Columns(row, width) == [k \in 1..width |-> CellAt(row, k)]

IsBlankRow(row) == \A k \in 1..Len(row) : row[k] = ""

\* get_values drops the empty rows at the end of the range
RECURSIVE TrimTrailing(_)
TrimTrailing(rows) ==
    IF rows # <<>> /\ IsBlankRow(rows[Len(rows)]) THEN TrimTrailing(SubSeq(rows, 1, Len(rows) - 1)) ELSE rows

\* get_values('A2:<width><last_row>')
GetValues(sheet, width, last_row) ==
    TrimTrailing([i \in 1..(Min(Len(sheet), last_row) - 1) |-> Columns(sheet[i + 1], width)])

ManualCols == <<"PSL", "Shipping Label Cost", "Notes">>

RECURSIVE AddManualCols(_, _)
AddManualCols(view_headers, k) ==
    IF k > Len(ManualCols) THEN view_headers
    ELSE AddManualCols(IF IndexOf(view_headers, ManualCols[k]) = 0 THEN Append(view_headers, ManualCols[k]) ELSE view_headers, k + 1)

PadRow(row, width) == [k \in 1..width |-> IF k <= Len(row) THEN row[k] ELSE Lit("")]

\* the rectangle get_all_values() returns: every row as wide as the widest
Rectangular(sheet) ==
    LET width == IF sheet = <<>> THEN 0 ELSE CHOOSE w \in {Len(sheet[i]) : i \in 1..Len(sheet)} : \A i \in 1..Len(sheet) : Len(sheet[i]) <= w
    IN  [i \in 1..Len(sheet) |-> PadRow(sheet[i], width)]

LitRow(row) == [k \in 1..Len(row) |-> Lit(row[k])]

\* _update_profit_formulas: rewrites the Profit column when the four columns
\* it needs are there
update_profit_formulas(sheet, headers, label_cost_col) ==
    LET profit_col    == IndexOfEither(headers, "Profit", "profit")
        revenue_col   == IndexOfEither(headers, "Total Revenue", "Sold Price")
        unit_cost_col == IndexOfEither(headers, "Unit Cost", "unit_cost")
        quantity_col  == IndexOf(headers, "Quantity")
    IN  IF profit_col = 0 \/ revenue_col = 0 \/ unit_cost_col = 0 \/ quantity_col = 0 \/ Len(sheet) < 2 THEN sheet
        ELSE [i \in 1..Len(sheet) |-> IF i = 1 THEN sheet[i] ELSE [sheet[i] EXCEPT ![profit_col] = ProfitFormula(revenue_col, unit_cost_col, quantity_col, label_cost_col)]]

\* the writes of a view build, in the order they are made; one of them may
\* fail
ViewWrites == {"clear", "headers", "formulas", "data", "profit"}

\* build_orders_view up to the METRICS update: the ORDERS sheet and the
\* header cache it leaves; status tells how far it went, failed names the
\* write that failed
build_orders_view(raw_sheet, cache, view_before, fault) ==
    LET entry         == get_headers_cached(cache, raw_sheet)
        raw_headers   == entry.headers
        width         == Len(raw_headers)
        sample_rows   == {i \in 2..Min(Len(raw_sheet), 1000) : raw_sheet[i][1] # ""}
        last_row      == Cardinality(sample_rows) + 1
        raw_data      == GetValues(raw_sheet, width, last_row)
        order_id_col  == IndexOfEither(raw_headers, "Order ID", "order_id")
        view_headers  == AddManualCols(raw_headers, 1)
        num_data_rows == Len(raw_data) - 1
        formulas      == <<XLookup(order_id_col, "psl", ""), XLookup(order_id_col, "shipping_label_cost", "0"), XLookup(order_id_col, "notes", "")>>
        data_rows     == [i \in 1..num_data_rows |-> LitRow(raw_data[i + 1]) \o formulas]
        written       == Rectangular(<<LitRow(view_headers)>> \o data_rows)
        blank_rows    == [i \in 1..num_data_rows |-> LitRow([k \in 1..width |-> ""]) \o formulas]
        with_profit   == update_profit_formulas(written, view_headers, width + 2)
        Left(sheet, status, failed) == [orders |-> sheet, cache |-> entry, status |-> status, failed |-> failed]
    IN  IF raw_headers = <<>> THEN Left(view_before, "no headers", "")
        ELSE IF Cardinality(sample_rows) = 0 THEN Left(view_before, "raw empty", "")
        ELSE IF order_id_col = 0 THEN Left(view_before, "no order id column", "")
        ELSE IF fault = "clear" THEN Left(view_before, "error", fault)
        ELSE IF fault = "headers" THEN Left(<<>>, "error", fault)
        ELSE IF num_data_rows <= 0 THEN Left(<<LitRow(view_headers)>>, "error", "")
        ELSE IF fault = "formulas" THEN Left(<<LitRow(view_headers)>>, "error", fault)
        ELSE IF fault = "data" THEN Left(Rectangular(<<LitRow(view_headers)>> \o blank_rows), "error", fault)
        ELSE IF fault = "profit" /\ with_profit # written THEN Left(written, "built", fault)
        ELSE Left(with_profit, "built", "")

\* what get_all_values() shows for a cell of row `row`
RECURSIVE CellValue(_, _, _)
CellValue(row, k, store) ==
    LET cell == row[k]
    IN  IF cell.kind = "value" THEN cell.text
        ELSE IF cell.kind = "xlookup"
        THEN LET key  == CellValue(row, cell.key, store)
                 hits == {i \in 1..Len(store) : store[i].order_id = key}
             IN  IF key = "" \/ hits = {} THEN cell.dflt
                 ELSE store[CHOOSE i \in hits : \A j \in hits : i <= j][cell.ret]
        ELSE "#"

\* ------------------------------------------------------- Shopify client
max_retries == 3

\* The answers the store gives to the successive requests for one page, one
\* per possible attempt: "200", "429", "500" or "err" (no answer: a
\* RequestException).
\* One page of _make_request: the retry loop.  `answers` are consumed from
\* the front; the result tells how the loop ended.
\* a retry loop that allows one attempt more than max_retries
RECURSIVE RetryLoop_OneMore(_, _)
RetryLoop_OneMore(answers, retries) ==
    IF retries > max_retries THEN [outcome |-> "exhausted", requests |-> retries]
    ELSE IF answers[1] = "200" THEN [outcome |-> "ok", requests |-> retries + 1]
    ELSE IF answers[1] \in {"429", "500"} THEN RetryLoop_OneMore(Tail(answers), retries + 1)
    ELSE IF retries + 1 > max_retries THEN [outcome |-> "raised", requests |-> retries + 1]
    ELSE RetryLoop_OneMore(Tail(answers), retries + 1)

RECURSIVE RetryLoop(_, _)
RetryLoop(answers, retries) ==
    IF retries >= max_retries THEN [outcome |-> "exhausted", requests |-> retries]
    ELSE IF answers[1] = "200" THEN [outcome |-> "ok", requests |-> retries + 1]
    ELSE IF answers[1] \in {"429", "500"} THEN RetryLoop(Tail(answers), retries + 1)
    ELSE IF retries + 1 >= max_retries THEN [outcome |-> "raised", requests |-> retries + 1]
    ELSE RetryLoop(Tail(answers), retries + 1)

\* the pages the store serves for `limit` orders per page
RECURSIVE Pages(_)
Pages(items) ==
    IF Len(items) <= PageLimit THEN <<items>>
    ELSE <<SubSeq(items, 1, PageLimit)>> \o Pages(SubSeq(items, PageLimit + 1, Len(items)))

\* _make_request: page after page while the answer carries a next link; an
\* answer that is not a 200 carries none
RECURSIVE MakeRequest(_, _, _, _, _)
MakeRequest(pages, answers, k, all_items, requests) ==
    LET page == RetryLoop(answers[k], 0)
        sent == Append(requests, page.requests)
    IN  IF page.outcome = "raised" THEN [status |-> "raised", items |-> <<>>, exhausted |-> FALSE, requests |-> sent]
        ELSE IF page.outcome = "exhausted" THEN [status |-> "returned", items |-> all_items, exhausted |-> TRUE, requests |-> sent]
        ELSE IF k = Len(pages) THEN [status |-> "returned", items |-> all_items \o pages[k], exhausted |-> FALSE, requests |-> sent]
        ELSE MakeRequest(pages, answers, k + 1, all_items \o pages[k], sent)

get_orders(store, answers) == MakeRequest(Pages(store), answers, 1, <<>>, <<>>)

\* ------------------------------------------------------ ORDERS-only sync
ORDERS_HEADERS == <<"Order #", "Date", "Customer", "Email", "Product", "Variant/Size", "Qty", "Unit Price", "Revenue", "Unit Cost", "Shipping Label Cost", "Profit", "PSL", "Notes", "Shopify Payout", "Fulfillment Status">>

DEFAULT_UNIT_COST == "12.26"

FORMULA_ROWS == 2000

\* =IFERROR(G<row>*H<row>,"")
RevenueFormula == [kind |-> "revenue", quantity |-> 7, unit_price |-> 8]

\* =IFERROR(I<row>-(J<row>*G<row>)-K<row>,"")
OrdersProfitFormula == [kind |-> "orders_profit", revenue |-> 9, unit_cost |-> 10, quantity |-> 7, label_cost |-> 11]

HeaderTexts(sheet) == IF sheet = <<>> THEN <<>> ELSE [k \in 1..Len(sheet[1]) |-> sheet[1][k].text]

\* len(sheet.get_all_values()): a row that holds only the two formulas shows
\* 0 in both, so it counts
NumExistingRows(sheet, fill) == IF fill + 1 > Len(sheet) THEN fill + 1 ELSE Len(sheet)

WithFormulas(row) == [row EXCEPT ![9] = RevenueFormula, ![12] = OrdersProfitFormula]

\* where a call of the Sheets API inside init_orders_apply may raise: at
\* sheet.clear(), at the header write, or at the formula write (refused, for
\* one, when the grid has fewer than FORMULA_ROWS + 1 rows); "none": nowhere
InitFaults == {"none", "clear", "headers", "formulas"}

\* an initialisation that clears the sheet and fills the formulas but leaves
\* out the header write
init_orders_apply_NoHeaderWrite(sheet, fill, fault) ==
    IF fault = "clear" THEN [orders |-> sheet, fill |-> fill, success |-> FALSE]
    ELSE IF fault = "formulas" THEN [orders |-> <<>>, fill |-> 0, success |-> FALSE]
    ELSE [orders |-> <<>>, fill |-> FORMULA_ROWS, success |-> TRUE]

\* init_orders_apply: clear, headers, formatting, formulas down to row
\* FORMULA_ROWS + 1; an exception ends it where it is raised and is
\* returned as success False
init_orders_apply(sheet, fill, fault) ==
    IF fault = "clear" THEN [orders |-> sheet, fill |-> fill, success |-> FALSE]
    ELSE IF fault = "headers" THEN [orders |-> <<>>, fill |-> 0, success |-> FALSE]
    ELSE IF fault = "formulas" THEN [orders |-> <<LitRow(ORDERS_HEADERS)>>, fill |-> 0, success |-> FALSE]
    ELSE [orders |-> <<LitRow(ORDERS_HEADERS)>>, fill |-> FORMULA_ROWS, success |-> TRUE]

\* created_at[:10] of an ISO timestamp
DateStr(created_at) == IF created_at = "2024-01-05T10:00:00Z" THEN "2024-01-05" ELSE IF created_at = "2024-01-06T11:30:00Z" THEN "2024-01-06" ELSE created_at

\* float(price), as the cell shows it
PriceCell(price) == IF price = "20.00" THEN "20" ELSE IF price = "15.50" THEN "15.5" ELSE "0"

CustomerName(customer) == IF customer = "" THEN "Guest" ELSE customer

ItemRow(order, item, first_of_order, unit_cost) ==
    <<order.order_number, DateStr(order.created_at), CustomerName(order.customer), order.email, item.title, item.variant_title, item.quantity, PriceCell(item.price), "", unit_cost, "", "", "", "", IF first_of_order THEN order.total_price ELSE "", IF order.fulfillment_status = "" THEN "unfulfilled" ELSE order.fulfillment_status>>

\* the rows of sync_orders, one per line item; the payout goes on the first
\* row of a run of rows with the same order number
RECURSIVE BuildRows(_, _, _, _)
BuildRows(fetched, o, i, rows) ==
    IF o > Len(fetched) THEN rows
    ELSE IF i > Len(fetched[o].line_items) THEN BuildRows(fetched, o + 1, 1, rows)
    ELSE BuildRows(fetched, o, i + 1, Append(rows, ItemRow(fetched[o], fetched[o].line_items[i], rows = <<>> \/ rows[Len(rows)][1] # fetched[o].order_number, DEFAULT_UNIT_COST)))

\* sheet.update('A2:P<n+1>', rows) followed by the formulas for those rows
WriteRows(sheet, rows) ==
    [i \in 1..(IF Len(rows) + 1 > Len(sheet) THEN Len(rows) + 1 ELSE Len(sheet)) |->
        IF i = 1 THEN (IF sheet = <<>> THEN LitRow([k \in 1..Len(ORDERS_HEADERS) |-> ""]) ELSE sheet[1]) ELSE IF i <= Len(rows) + 1 THEN WithFormulas(LitRow(rows[i - 1])) ELSE sheet[i]]

\* sync_orders: the ORDERS sheet it leaves and what it returns
sync_orders(sheet, fill, store, answers, init_fault, clear_fails) ==
    LET headers_ok == sheet # <<>> /\ HeaderTexts(sheet) = ORDERS_HEADERS
        start      == IF headers_ok THEN [orders |-> sheet, fill |-> fill] ELSE init_orders_apply(sheet, fill, init_fault)
        init       == IF headers_ok THEN "" ELSE init_fault
        fetched    == get_orders(store, answers)
        rows       == BuildRows(fetched.items, 1, 1, <<>>)
        cleared    == IF NumExistingRows(start.orders, start.fill) > 1 /\ ~clear_fails THEN [orders |-> IF start.orders = <<>> THEN <<>> ELSE <<start.orders[1]>>, fill |-> 0] ELSE [orders |-> start.orders, fill |-> start.fill]
        fetch      == IF fetched.status = "raised" THEN "raised" ELSE IF fetched.exhausted THEN "exhausted" ELSE "complete"
    IN  IF fetched.status = "raised" THEN [orders |-> start.orders, fill |-> start.fill, success |-> FALSE, rows |-> 0, fetch |-> fetch, init |-> init]
        ELSE IF fetched.items = <<>> \/ rows = <<>> THEN [orders |-> start.orders, fill |-> start.fill, success |-> TRUE, rows |-> 0, fetch |-> fetch, init |-> init]
        ELSE [orders |-> WriteRows(cleared.orders, rows), fill |-> cleared.fill, success |-> TRUE, rows |-> Len(rows), fetch |-> fetch, init |-> init]

\* ------------------------------------------------------------- METRICS
\* Amounts are counted in hundredths. A value cell of METRICS is the text of
\* a number, which float() reads back as n hundredths, or some other text.
FloatText(n) == [float |-> TRUE, n |-> n, text |-> ""]

OtherText(t) == [float |-> FALSE, n |-> 0, text |-> t]

MetricRow(key, label, value, updated_at) ==
    [metric_key |-> key, label |-> label, value |-> value, updated_at |-> updated_at]

MetricsHeaders == MetricRow("metric_key", "label", OtherText("value"), "updated_at")

default_setup_costs == 80932

required_metrics ==
    << MetricRow("total_revenue", "Total Revenue", FloatText(0), ""),
       MetricRow("total_units", "Total Units Sold", FloatText(0), ""),
       MetricRow("total_cogs", "Total COGS", FloatText(0), ""),
       MetricRow("total_shipping_label_cost", "Total Shipping Label Cost", FloatText(0), ""),
       MetricRow("gross_profit", "Gross Profit", FloatText(0), ""),
       MetricRow("contribution_profit", "Contribution Profit", FloatText(0), ""),
       MetricRow("setup_costs", "Setup Costs", FloatText(default_setup_costs), ""),
       MetricRow("net_profit_after_setup", "Net Profit After Setup", FloatText(0), ""),
       MetricRow("unfulfilled_count", "Unfulfilled Orders", FloatText(0), ""),
       MetricRow("missing_label_cost_count", "Missing Label Cost", FloatText(0), "") >>

\* create_metrics_sheet: row 1 is rewritten; a sheet of fewer than two rows
\* gets the ten required metrics from A2 down
create_metrics_sheet(sheet) ==
    LET headed == WriteRow1(sheet, MetricsHeaders)
    IN  IF Len(headed) < 2 THEN headed \o required_metrics ELSE headed

NoMetric == [found |-> FALSE, float |-> FALSE, n |-> 0]

\* get_metric: None, the float the first row of that key holds, or its text
get_metric(all_data, metric_key) ==
    LET i == FirstDataRow({k \in 2..Len(all_data) : all_data[k].metric_key = metric_key})
    IN  IF Len(all_data) < 2 \/ all_data[1].metric_key # "metric_key" \/ all_data[1].value # OtherText("value") \/ i = 0
        THEN NoMetric
        ELSE [found |-> TRUE, float |-> all_data[i].value.float, n |-> all_data[i].value.n]

\* a set_metric that never looks for the row of the key
set_metric_AlwaysAppend(all_data, metric_key, value, label, now) ==
    Append(all_data, MetricRow(metric_key, label, FloatText(value), now))

\* set_metric: upsert by metric_key; the value is written as str(value)
set_metric(all_data, metric_key, value, label, now) ==
    LET existing_row == FirstDataRow({k \in 2..Len(all_data) : all_data[k].metric_key = metric_key})
        row_data     == MetricRow(metric_key, label, FloatText(value), now)
    IN  IF all_data # <<>> /\ all_data[1] # MetricsHeaders THEN all_data
        ELSE IF existing_row # 0 THEN [all_data EXCEPT ![existing_row] = row_data]
        ELSE Append(all_data, row_data)

\* get_all_manual_overrides: the rows below row 1 that have a first cell, as
\* dicts keyed by the cells of row 1; the cost is a float or None
get_all_manual_overrides(all_data) ==
    LET HasOrderId(row) == row.order_id # ""
        rows == SelectSeq(Tail(all_data), HasOrderId)
    IN  IF Len(all_data) < 2 THEN <<>>
        ELSE [i \in 1..Len(rows) |->
                [order_id |-> IF all_data[1].order_id = "order_id" THEN rows[i].order_id ELSE "",
                 shipping_label_cost |-> IF all_data[1].shipping_label_cost = "shipping_label_cost" THEN CellToFloat(rows[i].shipping_label_cost) ELSE NoCost]]

\* float() of a cell of ORDERS with '$' and ',' removed, in hundredths; a
\* blank cell and a text float() rejects add nothing to a total
ParseAmount(text) ==
    IF text = "20" THEN 2000
    ELSE IF text = "$35.00" THEN 3500
    ELSE IF text = "1,020" THEN 102000
    ELSE IF text = "1" THEN 100
    ELSE IF text = "2" THEN 200
    ELSE IF text = "5" THEN 500
    ELSE IF text = "7.5" THEN 750
    ELSE 0

\* a Python index used as a condition: None and 0 are both false
Truthy(col) == col > 1

RECURSIVE Sum(_)
Sum(terms) == IF terms = <<>> THEN 0 ELSE Head(terms) + Sum(Tail(terms))

\* get_all_values() of ORDERS
AllValues(sheet, store) ==
    [i \in 1..Len(sheet) |-> [k \in 1..Len(sheet[i]) |-> CellValue(sheet[i], k, store)]]

\* the metric keys in the order metrics_to_update is written
MetricsToUpdate ==
    << <<"total_revenue", "Total Revenue">>, <<"total_units", "Total Units Sold">>,
       <<"total_cogs", "Total COGS">>, <<"total_shipping_label_cost", "Total Shipping Label Cost">>,
       <<"gross_profit", "Gross Profit">>, <<"contribution_profit", "Contribution Profit">>,
       <<"net_profit_after_setup", "Net Profit After Setup">>, <<"unfulfilled_count", "Unfulfilled Orders">>,
       <<"missing_label_cost_count", "Missing Label Cost">> >>

RECURSIVE SetMetrics(_, _, _, _)
SetMetrics(all_data, values, k, now) ==
    IF k > Len(MetricsToUpdate) THEN all_data
    ELSE SetMetrics(set_metric(all_data, MetricsToUpdate[k][1], values[k], MetricsToUpdate[k][2], now), values, k + 1, now)

\* calculate_and_update_metrics: the METRICS sheet it leaves and whether it
\* returned the computed values or raised
calculate_and_update_metrics(metrics_sheet, orders_sheet, store, fulfillment_data, now) ==
    LET created          == create_metrics_sheet(metrics_sheet)
        orders_data      == AllValues(orders_sheet, store)
        manual_overrides == get_all_manual_overrides(store)
        has_rows         == Len(orders_data) > 1
        headers          == IF has_rows THEN orders_data[1] ELSE <<>>
        data             == IF has_rows THEN Tail(orders_data) ELSE <<>>
        revenue_col      == IndexOfEither(headers, "Total Revenue", "Sold Price")
        quantity_col     == IndexOf(headers, "Quantity")
        unit_cost_col    == IndexOf(headers, "Unit Cost")
        total_revenue    == Sum([i \in 1..Len(data) |-> IF Truthy(revenue_col) /\ Len(data[i]) >= revenue_col THEN ParseAmount(data[i][revenue_col]) ELSE 0])
        total_units      == Sum([i \in 1..Len(data) |-> IF Truthy(quantity_col) /\ Len(data[i]) >= quantity_col THEN ParseAmount(data[i][quantity_col]) ELSE 0])
        total_cogs       == Sum([i \in 1..Len(data) |-> IF Truthy(unit_cost_col) /\ Truthy(quantity_col) /\ Len(data[i]) >= unit_cost_col /\ Len(data[i]) >= quantity_col THEN (ParseAmount(data[i][unit_cost_col]) * ParseAmount(data[i][quantity_col])) \div 100 ELSE 0])
        total_shipping_label_cost == Sum([i \in 1..Len(manual_overrides) |-> IF manual_overrides[i].shipping_label_cost \notin {NoCost, 0} THEN manual_overrides[i].shipping_label_cost ELSE 0])
        gross_profit        == total_revenue - total_cogs
        contribution_profit == total_revenue - total_cogs - total_shipping_label_cost
        stored           == get_metric(created, "setup_costs")
        setup_costs      == IF stored.found THEN stored.n ELSE default_setup_costs
        with_setup       == IF stored.found THEN created ELSE set_metric(created, "setup_costs", default_setup_costs, "Setup Costs", now)
        net_profit_after_setup == contribution_profit - setup_costs
        unfulfilled_count == IF Len(fulfillment_data) > 1 THEN 100 * (Len(fulfillment_data) - 1) ELSE 0
        order_id_col     == IndexOfEither(headers, "Order ID", "order_id")
        HasCost(order_id) ==
            LET hits == {j \in 1..Len(manual_overrides) : manual_overrides[j].order_id = order_id}
            IN  hits # {} /\ manual_overrides[CHOOSE j \in hits : \A h \in hits : h <= j].shipping_label_cost \notin {NoCost, 0}
        missing_label_cost_count == IF Truthy(order_id_col) THEN 100 * Cardinality({i \in 1..Len(data) : Len(data[i]) >= order_id_col /\ ~HasCost(data[i][order_id_col])}) ELSE 0
        values           == <<total_revenue, total_units, total_cogs, total_shipping_label_cost, gross_profit, contribution_profit, net_profit_after_setup, unfulfilled_count, missing_label_cost_count>>
    IN  IF stored.found /\ ~stored.float THEN [metrics |-> created, status |-> "raised"]
        ELSE [metrics |-> SetMetrics(with_setup, values, 1, now), status |-> "ok"]

\* ---------------------------------------------------------- FULFILLMENT
\* the statuses build_fulfillment_view keeps: the lowered text holds
\* 'unfulfilled', 'pending' or 'partial', or is empty
KeptStatus(status) == status \in {"unfulfilled", "partial", "pending", ""}

\* build_fulfillment_view: the FULFILLMENT sheet it leaves, the header row
\* of ORDERS and the ORDERS rows whose status is kept
build_fulfillment_view(sheet, orders_data) ==
    LET headers    == orders_data[1]
        first      == IndexOfEither(headers, "Fulfillment Status", "Shipping Status")
        status_col == IF first # 0 THEN first ELSE IndexOf(headers, "Order Status")
        Kept(row)  == Len(row) >= status_col /\ KeptStatus(row[status_col])
    IN  IF Len(orders_data) < 2 THEN sheet
        ELSE IF status_col = 0 THEN sheet
        ELSE <<headers>> \o SelectSeq(Tail(orders_data), Kept)

\* -------------------------------------------------- RAW_ORDERS snapshots
\* RAW_ORDERS is written by the order sync outside this model; its content
\* is an input.
RawHeadersPlain == <<"Order ID", "Order Number", "Quantity">>

\* raw records: order_id, order_number, quantity, notes
RawRecords == << <<"X1", "N1", "1", "r">>, <<"X2", "N2", "2", "">>, <<"", "N1", "1", "">> >>

RawField(record, header) ==
    IF header \in {"Order ID", "order_id"} THEN record[1]
    ELSE IF header \in {"Order Number", "order_number"} THEN record[2]
    ELSE IF header = "Quantity" THEN record[3]
    ELSE IF header = "Notes" THEN record[4]
    ELSE ""

RawRow(headers, record) == [k \in 1..Len(headers) |-> RawField(record, headers[k])]

RawLayouts == {RawHeadersPlain, <<"Order Number", "Order ID", "Notes">>, <<"Order Number", "Quantity">>}

\* the records picked, in the order of RawRecords
RECURSIVE PickRecords(_, _)
PickRecords(picked, k) ==
    IF k > Len(RawRecords) THEN <<>>
    ELSE (IF k \in picked THEN <<RawRecords[k]>> ELSE <<>>) \o PickRecords(picked, k + 1)

RawSheet(headers, picked) ==
    LET records == PickRecords(picked, 1)
    IN  <<headers>> \o [i \in 1..Len(records) |-> RawRow(headers, records[i])]

ViewSnapshots ==
    {<<>>} \cup {RawSheet(headers, picked) : headers \in RawLayouts, picked \in {p \in SUBSET (1..Len(RawRecords)) : Cardinality(p) <= MaxRawRows}}

\* RAW_ORDERS sheets with the money columns the metrics are computed from
\* metric records: order_id, revenue, quantity, unit cost, profit,
\* fulfillment status
MetricRecords == << <<"X1", "20", "1", "5", "15", "unfulfilled">>, <<"X2", "$35.00", "2", "5", "25", "fulfilled">>, <<"X1", "1,020", "2", "7.5", "1005", "partial">> >>

MetricField(record, header) ==
    IF header = "Order ID" THEN record[1]
    ELSE IF header \in {"Total Revenue", "Sold Price"} THEN record[2]
    ELSE IF header = "Quantity" THEN record[3]
    ELSE IF header = "Unit Cost" THEN record[4]
    ELSE IF header = "Profit" THEN record[5]
    ELSE IF header = "Fulfillment Status" THEN record[6]
    ELSE ""

MetricLayouts == {<<"Order ID", "Sold Price", "Quantity", "Unit Cost", "Profit">>, <<"Quantity", "Total Revenue", "Unit Cost", "Order ID">>, <<"Order ID", "Fulfillment Status", "Quantity">>}

\* the first n metric records under each layout
MetricSnapshots ==
    {<<>>} \cup {<<headers>> \o [i \in 1..n |-> [k \in 1..Len(headers) |-> MetricField(MetricRecords[i], headers[k])]] :
                headers \in MetricLayouts, n \in 0..Len(MetricRecords)}

KeySnapshots ==
    { <<>>,
      <<RawHeadersPlain, <<"X1", "N1", "1">>, <<"X2", "N2", "1">> >>,
      <<RawHeadersPlain, <<"", "N1", "1">> >> }

\* ---------------------------------------------------------------- state
Call(op, order_id, order_number, psl, cost, notes) ==
    [op |-> op, order_id |-> order_id, order_number |-> order_number, psl |-> psl, cost |-> cost, notes |-> notes, result |-> "", fetch |-> "", rows |-> 0, init |-> "", fault |-> ""]

CallResult(op, result) == [Call(op, "", "", "", NoCost, "") EXCEPT !.result = result]

\* no direct call of get_orders yet
NoFetch == [status |-> "none", items |-> <<>>, exhausted |-> FALSE, requests |-> <<>>, answers |-> <<>>]

\* no write under API answers yet
NoWrite == [via |-> "", result |-> FALSE, attempts |-> 0, throttles |-> 0, answers |-> <<>>]

\* no command received yet
NoServer == [pending |-> {}, inflight |-> {}, handled |-> <<>>]

NoCall == Call("none", "", "", "", NoCost, "")

\* a spreadsheet in which MANUAL_OVERRIDES was never created, or one in which
\* the migration script has created it
Init ==
    /\ overrides \in {<<>>, <<OverrideHeaders>>}
    /\ raw = <<>>
    /\ orders = <<>>
    /\ formulaFill = 0
    /\ source = <<>>
    /\ headersCache = NotCached
    /\ lastCall = NoCall
    /\ server = NoServer
    /\ fulfillment = <<>>
    /\ metrics = <<>>
    /\ writer = NoWrite
    /\ fetchResult = NoFetch

InitOps ==
    /\ overrides = <<OverrideHeaders>>
    /\ raw \in KeySnapshots
    /\ orders = <<>>
    /\ formulaFill = 0
    /\ source = <<>>
    /\ headersCache = NotCached
    /\ lastCall = NoCall
    /\ server = NoServer
    /\ fulfillment = <<>>
    /\ metrics = <<>>
    /\ writer = NoWrite
    /\ fetchResult = NoFetch

InitView ==
    /\ overrides = <<OverrideHeaders>>
    /\ raw \in ViewSnapshots
    /\ orders = <<>>
    /\ formulaFill = 0
    /\ source = <<>>
    /\ headersCache = NotCached
    /\ lastCall = NoCall
    /\ server = NoServer
    /\ fulfillment = <<>>
    /\ metrics = <<>>
    /\ writer = NoWrite
    /\ fetchResult = NoFetch

\* a spreadsheet whose METRICS and ORDERS tabs are still blank
InitMetrics ==
    /\ overrides = <<OverrideHeaders>>
    /\ raw \in MetricSnapshots
    /\ orders = <<>>
    /\ formulaFill = 0
    /\ source = <<>>
    /\ headersCache = NotCached
    /\ lastCall = NoCall
    /\ server = NoServer
    /\ fulfillment = <<>>
    /\ metrics = <<>>
    /\ writer = NoWrite
    /\ fetchResult = NoFetch

\* the server starts with no command received, whatever RAW_ORDERS maps
InitServer ==
    /\ overrides = <<OverrideHeaders>>
    /\ raw \in KeySnapshots
    /\ orders = <<>>
    /\ formulaFill = 0
    /\ source = <<>>
    /\ headersCache = NotCached
    /\ lastCall = NoCall
    /\ fulfillment = <<>>
    /\ metrics = <<>>
    /\ writer = NoWrite
    /\ fetchResult = NoFetch
    /\ server = NoServer

\* ---------------------------------------------------------------- actions
CreateManualOverridesSheet ==
    /\ overrides' = create_manual_overrides_sheet(overrides)
    /\ lastCall' = Call("create_manual_overrides_sheet", "", "", "", NoCost, "")
    /\ UNCHANGED <<raw, orders, formulaFill, source, headersCache, fetchResult, writer, metrics, fulfillment, server>>

Upsert(order_id, order_number, psl, cost, notes, now) ==
    /\ Len(upsert_manual_override(overrides, order_id, order_number, psl, cost, notes, "system", now)) <= MaxStoreRows
    /\ overrides' = upsert_manual_override(overrides, order_id, order_number, psl, cost, notes, "system", now)
    /\ lastCall' = Call("upsert", order_id, order_number, psl, cost, notes)
    /\ UNCHANGED <<raw, orders, formulaFill, source, headersCache, fetchResult, writer, metrics, fulfillment, server>>

SetShippingLabelCost(order_number, cost, now) ==
    LET order_id == get_order_id_from_number(raw, order_number)
        result   == set_shipping_label_cost(overrides, order_id, order_number, cost, now)
    IN  /\ Len(result) <= MaxOpsRows
        /\ overrides' = result
        /\ lastCall' = Call("set_shipping_label_cost", order_id, order_number, "", cost, "")
        /\ UNCHANGED <<raw, orders, formulaFill, source, headersCache, fetchResult, writer, metrics, fulfillment, server>>

SetPsl(order_number, psl, now) ==
    LET order_id == get_order_id_from_number(raw, order_number)
        result   == set_psl(overrides, order_id, order_number, psl, now)
    IN  /\ Len(result) <= MaxOpsRows
        /\ overrides' = result
        /\ lastCall' = Call("set_psl", order_id, order_number, psl, NoCost, "")
        /\ UNCHANGED <<raw, orders, formulaFill, source, headersCache, fetchResult, writer, metrics, fulfillment, server>>

AddNote(order_number, note, now) ==
    LET order_id == get_order_id_from_number(raw, order_number)
        result   == add_note(overrides, order_id, order_number, note, now)
    IN  /\ Len(result) <= MaxOpsRows
        /\ \A i \in 1..Len(result) : Len(SplitLines(result[i].notes)) <= MaxNoteLines
        /\ overrides' = result
        /\ lastCall' = Call("add_note", order_id, order_number, "", NoCost, note)
        /\ UNCHANGED <<raw, orders, formulaFill, source, headersCache, fetchResult, writer, metrics, fulfillment, server>>

RawSnapshot(snapshot) ==
    /\ raw' = snapshot
    /\ raw' # raw
    /\ lastCall' = Call("raw_snapshot", "", "", "", NoCost, "")
    /\ UNCHANGED <<overrides, orders, formulaFill, source, headersCache, fetchResult, writer, metrics, fulfillment, server>>

\* ------------------------------------------------------ Shopify store
Item(title, variant_title, quantity, price) == [title |-> title, variant_title |-> variant_title, quantity |-> quantity, price |-> price]

StoreOrders ==
    << [order_number |-> "1001", created_at |-> "2024-01-05T10:00:00Z", customer |-> "Ann Lee", email |-> "ann@example.com", fulfillment_status |-> "", total_price |-> "20.00", line_items |-> <<Item("Tee", "M", "1", "20.00")>>],
       [order_number |-> "1002", created_at |-> "2024-01-06T11:30:00Z", customer |-> "", email |-> "", fulfillment_status |-> "fulfilled", total_price |-> "51.00", line_items |-> <<Item("Tee", "L", "1", "20.00"), Item("Cap", "", "2", "15.50")>>],
       [order_number |-> "1003", created_at |-> "", customer |-> "Bo Chen", email |-> "bo@example.com", fulfillment_status |-> "partial", total_price |-> "0.00", line_items |-> <<>>] >>

RECURSIVE PickOrders(_, _)
PickOrders(picked, k) ==
    IF k > Len(StoreOrders) THEN <<>>
    ELSE (IF k \in picked THEN <<StoreOrders[k]>> ELSE <<>>) \o PickOrders(picked, k + 1)

Stores == {PickOrders(picked, 1) : picked \in {p \in SUBSET (1..Len(StoreOrders)) : Cardinality(p) <= MaxSourceOrders}}

\* one answer more than the retry budget, so that an attempt past the budget
\* would be answered
AnswerScripts == { <<"200", "200", "200", "200">>, <<"err", "500", "200", "200">>, <<"500", "429", "500", "200">>, <<"err", "err", "err", "200">>, <<"429", "err", "500", "200">> }

\* the scripts that end a page's retry loop in its three ways
SyncAnswerScripts == { <<"200", "200", "200">>, <<"500", "429", "500">>, <<"err", "err", "err">> }

ReorderedHeaders == [k \in 1..Len(ORDERS_HEADERS) |-> IF k = 1 THEN ORDERS_HEADERS[2] ELSE IF k = 2 THEN ORDERS_HEADERS[1] ELSE ORDERS_HEADERS[k]]

\* the columns a user fills in by hand: K, M, N
UserColumns == {11, 13, 14}

UserText(col) == IF col = 11 THEN "4.85" ELSE IF col = 13 THEN "PSL-7" ELSE "fragile"

Annotated(sheet) == {<<r, col>> \in (2..Len(sheet)) \X UserColumns : sheet[r][col] # Lit("")}

InitSync ==
    /\ overrides = <<OverrideHeaders>>
    /\ raw = <<>>
    /\ orders \in {<<>>, <<LitRow(ORDERS_HEADERS)>>}
    /\ formulaFill = 0
    /\ source \in Stores
    /\ headersCache = NotCached
    /\ lastCall = NoCall
    /\ server = NoServer
    /\ fulfillment = <<>>
    /\ metrics = <<>>
    /\ writer = NoWrite
    /\ fetchResult = NoFetch

SyncOrders(answers, init_fault, clear_fails) ==
    LET run == sync_orders(orders, formulaFill, source, answers, init_fault, clear_fails)
    IN  /\ orders' = run.orders
        /\ formulaFill' = run.fill
        /\ lastCall' = [CallResult("sync_orders", IF run.success THEN "success" ELSE "failed") EXCEPT !.fetch = run.fetch, !.rows = run.rows, !.init = run.init]
        /\ UNCHANGED <<overrides, raw, source, headersCache, fetchResult, writer, metrics, fulfillment, server>>

InitOrdersApply(fault) ==
    /\ orders' = init_orders_apply(orders, formulaFill, fault).orders
    /\ formulaFill' = init_orders_apply(orders, formulaFill, fault).fill
    /\ lastCall' = [CallResult("init_orders_apply", IF init_orders_apply(orders, formulaFill, fault).success THEN "success" ELSE "failed") EXCEPT !.init = fault]
    /\ UNCHANGED <<overrides, raw, source, headersCache, fetchResult, writer, metrics, fulfillment, server>>

\* the shop gains or loses orders
SourceChange(store) ==
    /\ store # source
    /\ source' = store
    /\ lastCall' = CallResult("source_change", "")
    /\ UNCHANGED <<overrides, raw, orders, formulaFill, headersCache, fetchResult, writer, metrics, fulfillment, server>>

\* a user types a shipping label cost, a PSL or a note into ORDERS
UserAnnotate(r, col) ==
    /\ HeaderTexts(orders) = ORDERS_HEADERS
    /\ r \in 2..Len(orders)
    /\ orders[r][col] = Lit("")
    /\ Cardinality(Annotated(orders)) < MaxAnnotations
    /\ orders' = [orders EXCEPT ![r][col] = Lit(UserText(col))]
    /\ lastCall' = CallResult("user_annotate", "")
    /\ UNCHANGED <<overrides, raw, formulaFill, source, headersCache, fetchResult, writer, metrics, fulfillment, server>>

\* a user reorders the first two header cells of ORDERS
UserReordersHeaders ==
    /\ HeaderTexts(orders) = ORDERS_HEADERS
    /\ orders' = [orders EXCEPT ![1] = LitRow(ReorderedHeaders)]
    /\ lastCall' = CallResult("user_reorders_headers", "")
    /\ UNCHANGED <<overrides, raw, formulaFill, source, headersCache, fetchResult, writer, metrics, fulfillment, server>>

NumPages(store) == Len(Pages(store))

\* the faults that can show in a run: the re-initialisation runs only on a
\* header mismatch, the clear only when there are rows below row 1
SyncInitFaults == IF orders # <<>> /\ HeaderTexts(orders) = ORDERS_HEADERS THEN {"none"} ELSE InitFaults

SyncClearFaults == IF orders # <<>> /\ HeaderTexts(orders) = ORDERS_HEADERS /\ NumExistingRows(orders, formulaFill) <= 1 THEN {FALSE} ELSE BOOLEAN

NextSync ==
    \/ \E answers \in [1..NumPages(source) -> SyncAnswerScripts], init_fault \in SyncInitFaults, clear_fails \in SyncClearFaults : SyncOrders(answers, init_fault, clear_fails)
    \/ \E fault \in InitFaults : InitOrdersApply(fault)
    \/ \E store \in Stores : SourceChange(store)
    \/ \E r \in 2..Len(orders), col \in UserColumns : UserAnnotate(r, col)
    \/ UserReordersHeaders

\* a caller fetches the orders: ShopifyClient.get_orders(limit, status)
GetOrders(answers) ==
    LET got == get_orders(source, answers)
    IN  /\ fetchResult' = [status |-> got.status, items |-> got.items, exhausted |-> got.exhausted, requests |-> got.requests, answers |-> answers]
        /\ lastCall' = [CallResult("get_orders", got.status) EXCEPT !.rows = Len(got.items)]
        /\ UNCHANGED <<overrides, raw, orders, formulaFill, source, headersCache, writer, metrics, fulfillment, server>>

InitFetch ==
    /\ overrides = <<>>
    /\ raw = <<>>
    /\ orders = <<>>
    /\ formulaFill = 0
    /\ source \in Stores
    /\ headersCache = NotCached
    /\ lastCall = NoCall
    /\ server = NoServer
    /\ fulfillment = <<>>
    /\ metrics = <<>>
    /\ writer = NoWrite
    /\ fetchResult = NoFetch

NextFetch ==
    \/ \E answers \in [1..NumPages(source) -> AnswerScripts] : GetOrders(answers)
    \/ \E store \in Stores : SourceChange(store)

\* batch_update_values("MANUAL_OVERRIDES", [{'range': 'A1:G1', 'values': [row]}])
BatchUpdateValues(row, answers) ==
    LET call == batch_update_values(answers)
    IN  /\ writer' = call
        /\ overrides' = IF call.result THEN WriteRow1(overrides, row) ELSE overrides
        /\ lastCall' = CallResult("batch_update_values", IF call.result THEN "True" ELSE "False")
        /\ UNCHANGED <<raw, orders, formulaFill, source, headersCache, fetchResult, metrics, fulfillment, server>>

\* upsert_manual_override when the API answers its one write call (sheet.update
\* or append_row) with answers[1]: the call is made once, bare, and an error
\* is raised to the caller with nothing written
UpsertAnswered(order_id, psl, answers) ==
    LET ok == answers[1] = "ok"
    IN  /\ Len(overrides) <= MaxStoreRows
        /\ overrides' = IF ok THEN upsert_manual_override(overrides, order_id, "N1", psl, NoCost, "", "system", "t1") ELSE overrides
        /\ writer' = [via |-> "sheet.update", result |-> ok, attempts |-> 1, throttles |-> 0, answers |-> answers]
        /\ lastCall' = [Call("upsert", order_id, "N1", psl, NoCost, "") EXCEPT !.result = IF ok THEN "" ELSE "raised"]
        /\ UNCHANGED <<raw, orders, formulaFill, source, headersCache, fetchResult, metrics, fulfillment, server>>

InitWriter ==
    /\ overrides \in {<<>>, <<OverrideHeaders>>}
    /\ raw = <<>>
    /\ orders = <<>>
    /\ formulaFill = 0
    /\ source = <<>>
    /\ headersCache = NotCached
    /\ lastCall = NoCall
    /\ server = NoServer
    /\ fulfillment = <<>>
    /\ metrics = <<>>
    /\ fetchResult = NoFetch
    /\ writer = NoWrite

NextWriter ==
    \/ \E row \in {OverrideHeaders, OverrideRow("X1", "N1", "P1", "", "", "t1", "system")}, answers \in WriteScripts : BatchUpdateValues(row, answers)
    \/ \E order_id \in OrderIds, answers \in WriteScripts : UpsertAnswered(order_id, "P1", answers)

\* build_orders_view: a build that got through its writes recomputes the
\* metrics; what the recomputation raises is logged and dropped
BuildOrdersView(fault, now) ==
    LET built == build_orders_view(raw, headersCache, orders, fault)
        calc  == calculate_and_update_metrics(metrics, built.orders, overrides, fulfillment, now)
    IN  /\ orders' = built.orders
        /\ formulaFill' = IF built.status \in {"built", "error"} /\ built.failed # "clear" THEN 0 ELSE formulaFill
        /\ headersCache' = built.cache
        /\ metrics' = IF built.status = "built" THEN calc.metrics ELSE metrics
        /\ lastCall' = [CallResult("build_orders_view", built.status) EXCEPT !.fault = built.failed]
        /\ UNCHANGED <<overrides, raw, source, fetchResult, writer, fulfillment, server>>

CalculateMetrics(now) ==
    LET calc == calculate_and_update_metrics(metrics, orders, overrides, fulfillment, now)
    IN  /\ metrics' = calc.metrics
        /\ lastCall' = CallResult("calculate_and_update_metrics", calc.status)
        /\ UNCHANGED <<overrides, raw, orders, formulaFill, source, headersCache, fetchResult, writer, fulfillment, server>>

\* CostsAgent._update_total_costs: the number of the command is stored as
\* setup_costs and the metrics are recomputed; what the recomputation raises
\* is dropped (a recomputation that cannot reach the spreadsheet raises
\* before it writes) and the command answers success
UpdateTotalCosts(new_cost, now, recompute_fails) ==
    LET stored == set_metric(metrics, "setup_costs", new_cost, "Setup Costs", now)
        calc   == calculate_and_update_metrics(stored, orders, overrides, fulfillment, now)
    IN  /\ metrics' = IF recompute_fails THEN stored ELSE calc.metrics
        /\ lastCall' = [Call("update_total_costs", "", "", "", new_cost, "") EXCEPT !.result = "success", !.fault = IF recompute_fails THEN "recompute" ELSE ""]
        /\ UNCHANGED <<overrides, raw, orders, formulaFill, source, headersCache, fetchResult, writer, fulfillment, server>>

\* ------------------------------------------------------------ API server
\* the override-writing commands of one order
Commands ==
    [op : {"add_note"}, order_number : {"N1"}, arg : NoteTexts] \cup [op : {"set_psl"}, order_number : {"N1"}, arg : PslValues]

\* POST /command is an async endpoint that calls the agent without awaiting:
\* the event loop starts the next handler when none is running
LoopFree(inflight) == inflight = {}

ReceiveCommand(cmd) ==
    /\ cmd \notin server.pending
    /\ cmd \notin {h.cmd : h \in server.inflight}
    /\ \A i \in 1..Len(server.handled) : server.handled[i] # cmd
    /\ server' = [server EXCEPT !.pending = @ \cup {cmd}]
    /\ lastCall' = CallResult("receive_command", "")
    /\ UNCHANGED <<overrides, raw, orders, formulaFill, source, headersCache, fetchResult, writer, metrics, fulfillment>>

\* the handler resolves the order number and, for a note, reads the record
StartCommand(cmd) ==
    LET order_id == get_order_id_from_number(raw, cmd.order_number)
        override == IF cmd.op = "add_note" THEN get_manual_override(overrides, order_id, cmd.order_number) ELSE NoOverride
    IN  /\ cmd \in server.pending
        /\ LoopFree(server.inflight)
        /\ server' = [server EXCEPT !.pending = @ \ {cmd}, !.inflight = @ \cup {[cmd |-> cmd, order_id |-> order_id, override |-> override]}]
        /\ lastCall' = CallResult("start_command", "")
        /\ UNCHANGED <<overrides, raw, orders, formulaFill, source, headersCache, fetchResult, writer, metrics, fulfillment>>

\* the handler upserts and answers
FinishCommand(h, now) ==
    /\ h \in server.inflight
    /\ overrides' = IF h.cmd.op = "add_note"
                    THEN add_note_upsert(overrides, h.order_id, h.cmd.order_number, h.cmd.arg, h.override, now)
                    ELSE set_psl(overrides, h.order_id, h.cmd.order_number, h.cmd.arg, now)
    /\ server' = [server EXCEPT !.inflight = @ \ {h}, !.handled = Append(@, h.cmd)]
    /\ lastCall' = IF h.cmd.op = "add_note" THEN Call("add_note", h.order_id, h.cmd.order_number, "", NoCost, h.cmd.arg)
                   ELSE Call("set_psl", h.order_id, h.cmd.order_number, h.cmd.arg, NoCost, "")
    /\ UNCHANGED <<raw, orders, formulaFill, source, headersCache, fetchResult, writer, metrics, fulfillment>>

BuildFulfillmentView ==
    /\ fulfillment' = build_fulfillment_view(fulfillment, AllValues(orders, overrides))
    /\ lastCall' = CallResult("build_fulfillment_view", "")
    /\ UNCHANGED <<overrides, raw, orders, formulaFill, source, headersCache, fetchResult, writer, metrics, server>>

\* SheetsManager.write_headers on RAW_ORDERS: the cells of row 1 are
\* overwritten from A1 on; the header cache is not touched
WriteHeaders(headers) ==
    /\ raw' = WriteRow1(raw, IF raw = <<>> THEN headers ELSE [k \in 1..(IF Len(raw[1]) > Len(headers) THEN Len(raw[1]) ELSE Len(headers)) |-> IF k <= Len(headers) THEN headers[k] ELSE raw[1][k]])
    /\ raw' # raw
    /\ lastCall' = CallResult("write_headers", "")
    /\ UNCHANGED <<overrides, orders, formulaFill, source, headersCache, fetchResult, writer, metrics, fulfillment, server>>

\* SheetsManager.get_headers_cached('RAW_ORDERS'); what it returns is the
\* entry it leaves in the cache
GetHeadersCached ==
    /\ headersCache' = get_headers_cached(headersCache, raw)
    /\ lastCall' = CallResult("get_headers_cached", "")
    /\ UNCHANGED <<overrides, raw, orders, formulaFill, source, fetchResult, writer, metrics, fulfillment, server>>

ClearCache ==
    /\ headersCache' = clear_cache(headersCache)
    /\ lastCall' = CallResult("clear_cache", "")
    /\ UNCHANGED <<overrides, raw, orders, formulaFill, source, fetchResult, writer, metrics, fulfillment, server>>

NextStore ==
    \/ CreateManualOverridesSheet
    \/ \E order_id \in OrderIds \cup {""}, order_number \in {"N1"}, psl \in PslValues \cup {""}, cost \in CostValues \cup {NoCost}, notes \in {""}, now \in Times : Upsert(order_id, order_number, psl, cost, notes, now)

NextOps ==
    \/ \E order_number \in OrderNumbers, cost \in CostValues, now \in Times : SetShippingLabelCost(order_number, cost, now)
    \/ \E order_number \in OrderNumbers, psl \in PslValues, now \in Times : SetPsl(order_number, psl, now)
    \/ \E order_number \in OrderNumbers, note \in NoteTexts, now \in Times : AddNote(order_number, note, now)
    \/ \E snapshot \in KeySnapshots : RawSnapshot(snapshot)

NextView ==
    \/ BuildOrdersView("", "t1")
    \/ ClearCache
    \/ \E snapshot \in ViewSnapshots : RawSnapshot(snapshot)
    \/ \E order_id \in OrderIds : Upsert(order_id, "N1", "P1", 150, "a", "t1")

\* the view build can fail at any of its writes
NextMetrics ==
    \/ \E fault \in ViewWrites \cup {""} : BuildOrdersView(fault, "t1")
    \/ CalculateMetrics("t1")
    \/ BuildFulfillmentView
    \/ \E new_cost \in SetupCostValues, recompute_fails \in BOOLEAN : UpdateTotalCosts(new_cost, "t1", recompute_fails)
    \/ \E order_id \in {"X1", ""}, cost \in CostValues : Upsert(order_id, "N1", "", cost, "", "t1")

NextServer ==
    \/ \E cmd \in Commands : ReceiveCommand(cmd)
    \/ \E cmd \in Commands : StartCommand(cmd)
    \/ \E h \in server.inflight : FinishCommand(h, "t1")

\* in this specification row 1 of RAW_ORDERS changes through the manager only
NextCache ==
    \/ GetHeadersCached
    \/ \E headers \in RawLayouts : WriteHeaders(headers)
    \/ ClearCache

Next == NextStore

Spec == Init /\ [][Next]_vars

SpecOps == InitOps /\ [][NextOps]_vars

SpecView == InitView /\ [][NextView]_vars

SpecSync == InitSync /\ [][NextSync]_vars

SpecFetch == InitFetch /\ [][NextFetch]_vars

SpecWriter == InitWriter /\ [][NextWriter]_vars

SpecMetrics == InitMetrics /\ [][NextMetrics]_vars

SpecServer == InitServer /\ [][NextServer]_vars

SpecCache == InitView /\ [][NextCache]_vars

\* =============================================================== claims
StripTime(sheet) == [i \in DOMAIN sheet |-> [sheet[i] EXCEPT !.updated_at = ""]]

IsOpsWrite(call) == call.op \in {"set_shipping_label_cost", "set_psl", "add_note"}

WeakRows(sheet, order_number) ==
    {i \in 2..Len(sheet) : sheet[i].order_id = "" /\ sheet[i].order_number = order_number}

\* an Override Record is a row of MANUAL_OVERRIDES that holds override data:
\* every row but the header row
RecordRows(sheet) == {i \in 1..Len(sheet) : sheet[i] # OverrideHeaders}

\* C3: after any sequence of upserts, no non-empty order_id appears in more
\* than one Override Record.
C3_OneRecordPerOrderId ==
    \A i, j \in RecordRows(overrides) :
        (i # j /\ overrides[i].order_id = overrides[j].order_id) => overrides[i].order_id = ""

\* C4: a write that supplies the resolved order_id together with order
\* number N, made while the store holds a record for N written without an
\* order_id, updates that record in place and the store does not grow.
C4_TwoTierUpsert ==
    [][(IsOpsWrite(lastCall') /\ lastCall'.order_id # "" /\ WeakRows(overrides, lastCall'.order_number) # {})
         => /\ Len(overrides') = Len(overrides)
            /\ \E i \in WeakRows(overrides, lastCall'.order_number) : overrides'[i].order_id = lastCall'.order_id]_vars

\* C5: a second upsert with the same order_id, order_number and field values
\* leaves the store as the first one left it, updated_at aside.
C5_UpsertIdempotent ==
    [][(lastCall.op = "upsert" /\ lastCall' = lastCall) => StripTime(overrides') = StripTime(overrides)]_vars

\* C6: once a raw snapshot maps order number N to order_id X, get(orderId=X)
\* returns the record that was upserted for N by order_number only.
C6_KeyResolutionFallback ==
    \A n \in OrderNumbers :
        LET x == get_order_id_from_number(raw, n)
        IN  (x # "" /\ WeakRows(overrides, n) # {})
              => \E i \in WeakRows(overrides, n) : get_manual_override(overrides, x, "") = OverrideDict(overrides[i])

\* C7: the record of an order holds the last PSL set, the last cost set and
\* every note added; stated per command: a set-cost, set-PSL or add-note
\* leaves its own field at the value just entered and the other manual
\* fields of the order's record as they were (notes keep every earlier line).
C7_FieldsIndependent ==
    [][IsOpsWrite(lastCall') =>
         LET c      == lastCall'
             before == get_manual_override(overrides, c.order_id, c.order_number)
             after  == get_manual_override(overrides', c.order_id, c.order_number)
         IN  /\ after.found
             /\ c.op = "set_psl" => after.psl = c.psl
             /\ c.op = "set_shipping_label_cost" => after.shipping_label_cost = c.cost
             /\ c.op = "add_note" => c.notes \in NoteLines(after.notes)
             /\ (before.found /\ c.op # "set_psl") => after.psl = before.psl
             /\ (before.found /\ c.op # "set_shipping_label_cost") => after.shipping_label_cost = before.shipping_label_cost
             /\ before.found => NoteLines(before.notes) \subseteq NoteLines(after.notes)]_vars

\* ---- the merged view
DataRows(sheet) == IF sheet = <<>> THEN 0 ELSE Len(sheet) - 1

ViewHeaders == IF orders = <<>> THEN <<>> ELSE [k \in 1..Len(orders[1]) |-> orders[1][k].text]

\* what the view shows in row r under the header `name`
ViewValue(r, name) ==
    IF IndexOf(ViewHeaders, name) = 0 THEN "" ELSE CellValue(orders[r], IndexOf(ViewHeaders, name), overrides)

ViewOrderId(r) ==
    IF IndexOfEither(ViewHeaders, "Order ID", "order_id") = 0 THEN ""
    ELSE CellValue(orders[r], IndexOfEither(ViewHeaders, "Order ID", "order_id"), overrides)

\* C2: a merged-view row whose raw record has an Override Record with the
\* same order_id shows the override's PSL, shipping label cost and notes,
\* also when the raw record carries a value in a column of the same name.
C2_OverridePrecedence ==
    \A r \in 2..Len(orders) :
        LET hit == FindExistingRow(overrides, ViewOrderId(r))
        IN  (ViewOrderId(r) # "" /\ hit # 0)
              => /\ ViewValue(r, "PSL") = overrides[hit].psl
                 /\ ViewValue(r, "Shipping Label Cost") = overrides[hit].shipping_label_cost
                 /\ ViewValue(r, "Notes") = overrides[hit].notes

\* C8: the merged view holds exactly one row per raw record, in the order of
\* the raw records; a raw record with an empty order_id is emitted too.
C8_OneRowPerRawRecord ==
    (lastCall.op = "build_orders_view" /\ lastCall.result \in {"built", "error", "raw empty"})
      => /\ DataRows(orders) = DataRows(raw)
         /\ \A i \in 2..Len(raw) : \A k \in 1..Len(raw[i]) : CellValue(orders[i], k, overrides) = raw[i][k]

\* ---- the ORDERS-only sync
SourceNumbers == {source[i].order_number : i \in 1..Len(source)}

\* C1: the shipping label cost, PSL and notes a user entered for an order
\* before a run of sync_orders are still shown for that order in ORDERS after
\* the run, when the order is in the source before and after.
C1_AnnotationsSurviveSync ==
    [][lastCall'.op = "sync_orders" =>
         \A r \in 2..Len(orders) :
             (HeaderTexts(orders) = ORDERS_HEADERS /\ orders[r][1].text \in SourceNumbers /\ \E col \in UserColumns : orders[r][col] # Lit(""))
               => \E q \in 2..Len(orders') : orders'[q][1] = orders[r][1] /\ \A col \in UserColumns : orders'[q][col] = orders[r][col]]_vars

\* C9: a second run of sync_orders right after a first one, with the same
\* source orders and nothing else written in between, leaves ORDERS cell for
\* cell as the first run left it (both runs report success).
C9_SyncIdempotent ==
    [][(lastCall.op = "sync_orders" /\ lastCall.result = "success" /\ lastCall'.op = "sync_orders" /\ lastCall'.result = "success")
         => (orders' = orders /\ formulaFill' = formulaFill)]_vars

\* C10: a run of sync_orders whose order fetch fails after its retries leaves
\* the destination as it was before the run.
C10_FailedFetchWritesNothing ==
    [][(lastCall'.op = "sync_orders" /\ lastCall'.fetch \in {"raised", "exhausted"})
         => (orders' = orders /\ formulaFill' = formulaFill)]_vars

\* C30: after a run of sync_orders that reports success with N rows written,
\* the data rows of ORDERS are the N rows of the run: no row of an earlier,
\* larger run is left below them.
C30_NoLeftoverRows ==
    (lastCall.op = "sync_orders" /\ lastCall.result = "success" /\ lastCall.rows > 0)
        => Len(orders) = lastCall.rows + 1

\* ---- the Shopify fetch
\* the pages the last get_orders call requested
PagesRequested == 1..Len(fetchResult.requests)

\* every answer to page k within the retry budget was a 429 or a 5xx
KeptFailing(k) == \A a \in 1..max_retries : fetchResult.answers[k][a] \in {"429", "500"}

\* C11: when the source keeps answering a page request with 429 or 5xx until
\* the retry budget is used up, get_orders fails with an error; it does not
\* return normally.
C11_ExhaustedFetchRaises ==
    \A k \in PagesRequested : KeptFailing(k) => fetchResult.status = "raised"

\* the requests the last get_orders call sent, over all its pages
RequestsSent == Sum(fetchResult.requests)

\* C28: a fetch of the orders ends, returned or raised, after finitely many
\* requests: whatever the answers, no page is requested more than max_retries
\* times, and no more pages are requested than the store has.
C28_FetchCappedAndEnds ==
    fetchResult.status # "none"
        => /\ fetchResult.status \in {"returned", "raised"}
           /\ Len(fetchResult.requests) <= Len(fetchResult.answers)
           /\ \A k \in PagesRequested : fetchResult.requests[k] \in 1..max_retries
           /\ RequestsSent <= max_retries * Len(fetchResult.answers)

\* a fetch over two pages used the whole retry budget on its second page
C28_Witness ==
    /\ lastCall.op = "get_orders"
    /\ Len(fetchResult.requests) = 2
    /\ fetchResult.requests[2] = max_retries
    /\ fetchResult.answers[2][max_retries] # "200"

C13_AbortOnSchemaMismatch ==
    [][(lastCall'.op = "sync_orders" /\ lastCall'.init \in {"clear", "headers"})
         => /\ lastCall'.result = "failed"
            /\ lastCall'.rows = 0
            /\ \A r \in 2..Len(orders') : r <= Len(orders) /\ orders'[r] = orders[r]]_vars

\* ---- the rate-limited writer
AlwaysRateLimited == writer.answers # <<>> /\ \A a \in 1..writer_max_retries : writer.answers[a] = "429"

\* C14: a destination write that gets a rate-limit error on every attempt
\* stops after writer_max_retries attempts and reports failure to its caller;
\* no call makes more attempts than that.
C14_WriterRetryBound ==
    /\ writer.attempts <= writer_max_retries
    /\ (writer.via = "batch_update_values" /\ AlwaysRateLimited)
         => (writer.attempts = writer_max_retries /\ writer.result = FALSE /\ lastCall.result = "False")

\* a write was rate-limited on every attempt and has given up
C14_Witness == writer.via = "batch_update_values" /\ AlwaysRateLimited /\ writer.attempts = writer_max_retries /\ lastCall.op = "batch_update_values"

\* C29: a destination call that fails once with a 5xx server error and would
\* be accepted on the next attempt is retried and completes successfully.
C29_ServerErrorRetried ==
    (writer.via = "batch_update_values" /\ writer.answers[1] = "500" /\ writer.answers[2] = "ok")
        => (writer.result /\ writer.attempts = 2)

\* C15: every mutation of the spreadsheet goes through the rate-limited
\* writer: each attempt of the write is preceded by the throttle, and a write
\* that hits a rate-limit error is retried (so one that is accepted on the
\* second attempt is written).
C15_AllWritesRateLimited ==
    writer.answers # <<>> =>
        /\ writer.throttles = writer.attempts
        /\ (writer.answers[1] = "429" /\ writer.answers[2] = "ok") => writer.result

\* ---- metrics
\* the operation of the last step recomputed the metrics and wrote them
Recomputed ==
    \/ lastCall.op = "calculate_and_update_metrics" /\ lastCall.result = "ok"
    \/ lastCall.op = "build_orders_view" /\ lastCall.result = "built"

\* what the ORDERS tab shows, row 1 being its header row
OrdersValues == AllValues(orders, overrides)

OrdersColumn(name, alt) == IF OrdersValues = <<>> THEN 0 ELSE IndexOfEither(OrdersValues[1], name, alt)

\* the amount in column col of row r of ORDERS
OrdersAmount(r, col) == ParseAmount(OrdersValues[r][col])

\* the value of the metric record of that key
MetricValue(metric_key) == get_metric(metrics, metric_key).n

\* C16: after a metrics recomputation total_revenue is the sum of the
\* revenue column over all rows of ORDERS, total_units the sum of the
\* quantity column and total_cogs the sum of unit cost * quantity, whatever
\* the positions of the three columns in the header row.
C16_TotalsMatchOrders ==
    LET revenue   == OrdersColumn("Total Revenue", "Sold Price")
        quantity  == OrdersColumn("Quantity", "Quantity")
        unit_cost == OrdersColumn("Unit Cost", "Unit Cost")
    IN  (Recomputed /\ revenue # 0 /\ quantity # 0 /\ unit_cost # 0) =>
            /\ MetricValue("total_revenue") = Sum([i \in 1..(Len(orders) - 1) |-> OrdersAmount(i + 1, revenue)])
            /\ MetricValue("total_units") = Sum([i \in 1..(Len(orders) - 1) |-> OrdersAmount(i + 1, quantity)])
            /\ MetricValue("total_cogs") = Sum([i \in 1..(Len(orders) - 1) |-> (OrdersAmount(i + 1, unit_cost) * OrdersAmount(i + 1, quantity)) \div 100])

\* the label cost an Override Record holds, 0 when it has none
RecordLabelCost(row) ==
    IF row = OverrideHeaders \/ CellToFloat(row.shipping_label_cost) = NoCost THEN 0 ELSE CellToFloat(row.shipping_label_cost)

\* C17: after a metrics recomputation total_shipping_label_cost is the sum
\* of the label costs of all Override Records that have one, those without
\* an order_id included.
C17_LabelCostOverAllRecords ==
    Recomputed =>
        MetricValue("total_shipping_label_cost") = Sum([i \in 1..Len(overrides) |-> RecordLabelCost(overrides[i])])

\* the rows of METRICS that hold the setup_costs metric
SetupRows(sheet) == {i \in 1..Len(sheet) : sheet[i].metric_key = "setup_costs"}

\* the setup_costs value METRICS holds
PersistedSetupCosts(sheet) == sheet[CHOOSE i \in SetupRows(sheet) : \A j \in SetupRows(sheet) : i <= j].value

\* a recomputation keeps the setup_costs value `before`, or persists and uses
\* the default when there was none
SetupCostsKept(had_before, before) ==
    /\ SetupRows(metrics') # {}
    /\ PersistedSetupCosts(metrics') = (IF had_before THEN before ELSE FloatText(default_setup_costs))
    /\ (~had_before) => get_metric(metrics', "net_profit_after_setup").n = get_metric(metrics', "contribution_profit").n - default_setup_costs

\* C18: a metrics recomputation leaves a persisted setup_costs value as it
\* is, the one a costs command has just stored included; when METRICS holds
\* no setup_costs it persists the default 809.32 and subtracts that value
\* in net_profit_after_setup.
C18_SetupCostsReadModifyWrite ==
    [][/\ (lastCall'.op = "calculate_and_update_metrics" \/ (lastCall'.op = "build_orders_view" /\ lastCall'.result = "built"))
            => SetupCostsKept(SetupRows(metrics) # {}, IF SetupRows(metrics) # {} THEN PersistedSetupCosts(metrics) ELSE FloatText(0))
       /\ lastCall'.op = "update_total_costs" => SetupCostsKept(TRUE, FloatText(lastCall'.cost))]_vars

\* C19: a view build in which a write of the merged view fails (the clear,
\* the header row, the override lookup formulas, the data rows or the profit
\* formulas) does not recompute the metrics: METRICS is left as it was.
C19_NoMetricsAfterFailedWrite ==
    [][(lastCall'.op = "build_orders_view" /\ lastCall'.fault \in ViewWrites) => metrics' = metrics]_vars

\* C20: a write made for order number N without a known order_id leaves a
\* record for N, and leaves alone every record that was written without an
\* order_id for another order number: two such writes for two order numbers
\* give two records.
C20_KeyedByOrderNumber ==
    [][(IsOpsWrite(lastCall') /\ lastCall'.order_id = "")
         => /\ WeakRows(overrides', lastCall'.order_number) # {}
            /\ \A i \in 2..Len(overrides) :
                   (overrides[i].order_id = "" /\ overrides[i].order_number # lastCall'.order_number)
                       => (i <= Len(overrides') /\ overrides'[i] = overrides[i])]_vars

\* C21: get looks up by order_id first: when a record of the store holds
\* the order_id asked for, get returns a record with that order_id, even if
\* an earlier row matches the order number asked for.
C21_GetPrefersOrderId ==
    \A x \in OrderIds, n \in OrderNumbers :
        (\E i \in 2..Len(overrides) : overrides[i].order_id = x)
            => get_manual_override(overrides, x, n).order_id = x

\* the record the store returns for an order number
RecordOf(order_number) ==
    get_manual_override(overrides, get_order_id_from_number(raw, order_number), order_number)

\* C22: commands that write the overrides of one order are handled one after
\* the other, and once every handler has answered the record of the order
\* reflects each of them: it holds every note added and the PSL set.
C22_NoLostUpdate ==
    server.inflight = {} =>
        \A i \in 1..Len(server.handled) :
            LET cmd == server.handled[i]
            IN  /\ RecordOf(cmd.order_number).found
                /\ cmd.op = "add_note" => cmd.arg \in NoteLines(RecordOf(cmd.order_number).notes)
                /\ cmd.op = "set_psl" => RecordOf(cmd.order_number).psl = cmd.arg

\* the operation of the last step updated metrics and reported success
MetricsUpdateSucceeded ==
    Recomputed \/ (lastCall.op = "update_total_costs" /\ lastCall.result = "success")

\* C23: whenever a metrics recomputation or a costs command has reported
\* success, the persisted metrics satisfy gross_profit = total_revenue -
\* total_cogs, contribution_profit = gross_profit -
\* total_shipping_label_cost and net_profit_after_setup =
\* contribution_profit - setup_costs.
C23_ProfitIdentities ==
    MetricsUpdateSucceeded =>
        /\ \A key \in {"total_revenue", "total_cogs", "total_shipping_label_cost", "gross_profit", "contribution_profit", "setup_costs", "net_profit_after_setup"} : get_metric(metrics, key).found
        /\ MetricValue("gross_profit") = MetricValue("total_revenue") - MetricValue("total_cogs")
        /\ MetricValue("contribution_profit") = MetricValue("gross_profit") - MetricValue("total_shipping_label_cost")
        /\ MetricValue("net_profit_after_setup") = MetricValue("contribution_profit") - MetricValue("setup_costs")

\* the rows of ORDERS whose fulfillment status is unfulfilled, partial or
\* unknown; a blank status cell is an unknown status
UnfulfilledRows ==
    LET status == OrdersColumn("Fulfillment Status", "Fulfillment Status")
    IN  {r \in 2..Len(orders) : OrdersValues[r][status] \in {"unfulfilled", "partial", "unknown", ""}}

\* C24: after a metrics recomputation unfulfilled_count is the number of
\* ORDERS rows whose fulfillment status is, at that time, unfulfilled,
\* partial or unknown.
C24_UnfulfilledCount ==
    (Recomputed /\ OrdersColumn("Fulfillment Status", "Fulfillment Status") # 0) =>
        MetricValue("unfulfilled_count") = 100 * Cardinality(UnfulfilledRows)

\* the order has an Override Record with a label cost; a row without an
\* order id has no record
HasLabelCost(order_id) ==
    order_id # "" /\ \E i \in RecordRows(overrides) : overrides[i].order_id = order_id /\ RecordLabelCost(overrides[i]) # 0

\* C25: after a metrics recomputation missing_label_cost_count is the
\* number of ORDERS rows whose order has no Override Record with a label
\* cost, wherever the order id column stands in the header row.
C25_MissingLabelCostCount ==
    LET order_id_col == OrdersColumn("Order ID", "order_id")
    IN  (Recomputed /\ order_id_col # 0) =>
            MetricValue("missing_label_cost_count") = 100 * Cardinality({r \in 2..Len(orders) : ~HasLabelCost(OrdersValues[r][order_id_col])})

\* every required metric key is the key of exactly one row of METRICS
RequiredKeysOnce(sheet) ==
    \A k \in 1..Len(required_metrics) :
        Cardinality({i \in 1..Len(sheet) : sheet[i].metric_key = required_metrics[k].metric_key}) = 1

\* C26: once METRICS holds the ten required metrics, each in one row, every
\* later metric write and recomputation leaves each of them in exactly one
\* row; and a recomputation always leaves METRICS so.
C26_RequiredKeysKept ==
    [][(RequiredKeysOnce(metrics) \/ Recomputed') => RequiredKeysOnce(metrics')]_vars

C26_Witness ==
    /\ lastCall.op = "update_total_costs"
    /\ RequiredKeysOnce(metrics)
    /\ PersistedSetupCosts(metrics) = FloatText(100000)
    /\ MetricValue("total_revenue") > 0

\* C27: after the header row of a sheet has been rewritten through the
\* manager, get_headers_cached returns the header row the sheet has now.
C27_CacheFollowsHeaders ==
    [][lastCall'.op = "get_headers_cached" => headersCache'.headers = (IF raw = <<>> THEN <<>> ELSE raw[1])]_vars

====
